---- MODULE Spec2Model ----
\* Triangle vertex inference from Hough line segments
\* (src/src/triangle_detector.py): border filter, orientation clustering,
\* pairwise intersection, centroid ranking and tolerance deduplication.
\*
\* Segments are <<x1, y1, x2, y2>> with integer coordinates, points are
\* <<x, y>>, and the image shape is <<height, width>>.  Python floats are
\* modelled bit-exactly as IEEE-754 binary64 values wherever the code
\* truncates or ranks them.
EXTENDS Integers, Naturals, Sequences, FiniteSets, TLC

VARIABLES
    lines,            \* argument of the call under way
    img_shape,        \* <<height, width>>
    base,             \* the single-copy input the argument was derived from
    jitter,           \* the displacement pattern applied to the copies of base
    pc,               \* position in the call
    filtered_lines,   \* find_triangle_vertices: after step 1
    sorted_lines,     \* merge_similar_lines: its argument, longest first
    groups,           \* merge_similar_lines: the clusters, in opening order
    merged_lines,     \* merge_similar_lines: its return value
    centroid,         \* find_triangle_vertices: <<centroid_x, centroid_y>>
    vertices,         \* find_triangle_vertices: (intersection, dist_to_center) list
    candidates,       \* vertices as enumerated in step 4, before the in-place sort
    unique,           \* find_triangle_vertices: deduplicated points
    result,           \* return value of find_triangle_vertices
    pair,             \* arguments of find_line_intersection
    isect             \* return value of find_line_intersection

vars == <<lines, img_shape, base, jitter, pc, filtered_lines, sorted_lines, groups,
          merged_lines, centroid, vertices, candidates, unique, result, pair, isect>>

\* ---------------------------------------------------------------------
\* Natural numbers of arbitrary size: little-endian sequences of limbs in
\* base 2^15, without high zero limbs (zero is <<>>).
\* ---------------------------------------------------------------------
LimbBits == 15
LimbBase == 2^15

RECURSIVE Pow2(_)
Pow2(k) == IF k = 0 THEN 1 ELSE 2 * Pow2(k - 1)

Abs(x) == IF x < 0 THEN -x ELSE x

Min2(a, b) == IF a <= b THEN a ELSE b

RECURSIVE BNorm(_)
BNorm(a) ==
    IF a = <<>> THEN <<>>
    ELSE IF a[Len(a)] = 0 THEN BNorm(SubSeq(a, 1, Len(a) - 1)) ELSE a

RECURSIVE BFromNat(_)
BFromNat(n) == IF n = 0 THEN <<>> ELSE <<n % LimbBase>> \o BFromNat(n \div LimbBase)

RECURSIVE BToNat(_)
BToNat(a) == IF a = <<>> THEN 0 ELSE a[1] + LimbBase * BToNat(Tail(a))

RECURSIVE BAddC(_, _, _)
BAddC(a, b, c) ==
    IF a = <<>> /\ b = <<>> THEN (IF c = 0 THEN <<>> ELSE <<c>>)
    ELSE LET x == IF a = <<>> THEN 0 ELSE a[1]
             y == IF b = <<>> THEN 0 ELSE b[1]
             s == x + y + c
         IN  <<s % LimbBase>> \o
             BAddC(IF a = <<>> THEN <<>> ELSE Tail(a),
                   IF b = <<>> THEN <<>> ELSE Tail(b), s \div LimbBase)

BAdd(a, b) == BAddC(a, b, 0)

\* a - b for a >= b
RECURSIVE BSubC(_, _, _)
BSubC(a, b, c) ==
    IF a = <<>> THEN <<>>
    ELSE LET y == IF b = <<>> THEN 0 ELSE b[1]
             d == a[1] - y - c
         IN  <<d % LimbBase>> \o
             BSubC(Tail(a), IF b = <<>> THEN <<>> ELSE Tail(b), IF d < 0 THEN 1 ELSE 0)

BSub(a, b) == BNorm(BSubC(a, b, 0))

RECURSIVE BCmpFrom(_, _, _)
BCmpFrom(a, b, i) ==
    IF i = 0 THEN 0
    ELSE IF a[i] < b[i] THEN -1
    ELSE IF a[i] > b[i] THEN 1
    ELSE BCmpFrom(a, b, i - 1)

BCmp(a, b) ==
    IF Len(a) < Len(b) THEN -1
    ELSE IF Len(a) > Len(b) THEN 1
    ELSE BCmpFrom(a, b, Len(a))

\* a * k for 0 <= k <= 2^15
RECURSIVE BMulSmallC(_, _, _)
BMulSmallC(a, k, c) ==
    IF a = <<>> THEN (IF c = 0 THEN <<>> ELSE <<c>>)
    ELSE LET p == a[1] * k + c
         IN  <<p % LimbBase>> \o BMulSmallC(Tail(a), k, p \div LimbBase)

BMulSmall(a, k) == BNorm(BMulSmallC(a, k, 0))

RECURSIVE BMul(_, _)
BMul(a, b) ==
    IF a = <<>> \/ b = <<>> THEN <<>>
    ELSE LET rest == BMul(a, Tail(b))
         IN  BAdd(BMulSmall(a, b[1]), IF rest = <<>> THEN <<>> ELSE <<0>> \o rest)

\* <<floor(a / d), a mod d>> for 0 < d < 2^16, limbs taken from the top
RECURSIVE BDivSmallR(_, _, _)
BDivSmallR(a, d, i) ==
    IF i > Len(a) THEN <<<<>>, 0>>
    ELSE LET hi  == BDivSmallR(a, d, i + 1)
             cur == hi[2] * LimbBase + a[i]
         IN  <<<<cur \div d>> \o hi[1], cur % d>>

BDivSmall(a, d) == LET r == BDivSmallR(a, d, 1) IN <<BNorm(r[1]), r[2]>>

RECURSIVE Zeros(_)
Zeros(n) == IF n = 0 THEN <<>> ELSE <<0>> \o Zeros(n - 1)

BShl(a, k) ==
    IF a = <<>> THEN <<>>
    ELSE Zeros(k \div LimbBits) \o BMulSmall(a, Pow2(k % LimbBits))

BShr(a, k) ==
    LET drop == k \div LimbBits
    IN  IF drop >= Len(a) THEN <<>>
        ELSE BDivSmall(SubSeq(a, drop + 1, Len(a)), Pow2(k % LimbBits))[1]

RECURSIVE NatBitLen(_)
NatBitLen(n) == IF n = 0 THEN 0 ELSE 1 + NatBitLen(n \div 2)

BBitLen(a) == IF a = <<>> THEN 0 ELSE LimbBits * (Len(a) - 1) + NatBitLen(a[Len(a)])

BBit(a, i) ==
    LET l == i \div LimbBits + 1
    IN  IF l > Len(a) THEN 0 ELSE (a[l] \div Pow2(i % LimbBits)) % 2

BOdd(a) == a # <<>> /\ a[1] % 2 = 1

\* bits 16k+15 .. 16k of a
BWord(a, k) ==
    LET l == (16 * k) \div LimbBits
        w == (IF l + 1 <= Len(a) THEN a[l + 1] ELSE 0)
             + LimbBase * (IF l + 2 <= Len(a) THEN a[l + 2] ELSE 0)
    IN  (w \div Pow2((16 * k) % LimbBits)) % 65536

\* d * (512 * root + d), the amount the digit d adds to the square
DigitCost(r512, d) == BMulSmall(BAdd(r512, BFromNat(d)), d)

\* the largest digit below 256 whose cost fits in r2, found from its top bit
RECURSIVE SqrtDigit(_, _, _, _)
SqrtDigit(r512, r2, d, bit) ==
    IF bit = 0 THEN d
    ELSE IF BCmp(DigitCost(r512, d + bit), r2) <= 0
         THEN SqrtDigit(r512, r2, d + bit, bit \div 2)
         ELSE SqrtDigit(r512, r2, d, bit \div 2)

\* <<floor(sqrt(a)), a - floor(sqrt(a))^2>>, eight bits of the root
\* (sixteen bits of a) at a time from the top
RECURSIVE BSqrtR(_, _, _, _)
BSqrtR(a, k, root, rem) ==
    IF k < 0 THEN <<root, rem>>
    ELSE LET r2   == BAdd(BShl(rem, 16), BFromNat(BWord(a, k)))
             r512 == BShl(root, 9)
             d    == SqrtDigit(r512, r2, 0, 128)
         IN  IF d = 0 THEN BSqrtR(a, k - 1, BShl(root, 8), r2)
             ELSE BSqrtR(a, k - 1, BAdd(BShl(root, 8), BFromNat(d)),
                         BSub(r2, DigitCost(r512, d)))

BSqrt(a) == BSqrtR(a, (BBitLen(a) + 15) \div 16 - 1, <<>>, <<>>)

\* ---------------------------------------------------------------------
\* IEEE-754 binary64 values: (-1)^neg * m * 2^e with 2^52 <= m < 2^53,
\* or zero (m = <<>>).  Exponent range limits are never reached here.
\* ---------------------------------------------------------------------
Precision == 53

FZero == [neg |-> FALSE, m |-> <<>>, e |-> 0]

\* round-to-nearest-even of M * 2^e (plus a positive fraction of the last
\* place of M when sticky) to Precision bits
FRound(neg, M, e, sticky) ==
    IF M = <<>> THEN FZero
    ELSE LET L == BBitLen(M) IN
         IF L <= Precision
         THEN [neg |-> neg, m |-> BShl(M, Precision - L), e |-> e - (Precision - L)]
         ELSE LET sh   == L - Precision
                  q    == BShr(M, sh)
                  half == BBit(M, sh - 1) = 1
                  low  == sticky \/ BShl(BShr(M, sh - 1), sh - 1) # M
                  up   == half /\ (low \/ BOdd(q))
                  q1   == IF up THEN BAdd(q, <<1>>) ELSE q
              IN  IF BBitLen(q1) > Precision
                  THEN [neg |-> neg, m |-> BShr(q1, 1), e |-> e + sh + 1]
                  ELSE [neg |-> neg, m |-> q1, e |-> e + sh]

FFromInt(k) == FRound(k < 0, BFromNat(Abs(k)), 0, FALSE)

\* int / int  (true division of two integers, |d| < 2^16)
FDivInt(n, d) ==
    IF n = 0 THEN FZero
    ELSE LET qr == BDivSmall(BShl(BFromNat(Abs(n)), 75), Abs(d))
         IN  FRound((n < 0) # (d < 0), qr[1], -75, qr[2] # 0)

FMul(a, b) == FRound(a.neg # b.neg, BMul(a.m, b.m), a.e + b.e, FALSE)

FAdd(a, b) ==
    IF a.m = <<>> THEN b
    ELSE IF b.m = <<>> THEN a
    ELSE LET e  == Min2(a.e, b.e)
             Ma == BShl(a.m, a.e - e)
             Mb == BShl(b.m, b.e - e)
             c  == BCmp(Ma, Mb)
         IN  IF a.neg = b.neg THEN FRound(a.neg, BAdd(Ma, Mb), e, FALSE)
             ELSE IF c = 0 THEN FZero
             ELSE IF c > 0 THEN FRound(a.neg, BSub(Ma, Mb), e, FALSE)
             ELSE FRound(b.neg, BSub(Mb, Ma), e, FALSE)

FNeg(a) == IF a.m = <<>> THEN a ELSE [a EXCEPT !.neg = ~a.neg]

FSub(a, b) == FAdd(a, FNeg(b))

\* sqrt of a non-negative value
FSqrt(a) ==
    IF a.m = <<>> THEN FZero
    ELSE LET k  == IF a.e % 2 = 0 THEN 58 ELSE 59
             rr == BSqrt(BShl(a.m, k))
         IN  FRound(FALSE, rr[1], (a.e - k) \div 2, rr[2] # <<>>)

\* int(x): truncation toward zero
FTrunc(a) ==
    IF a.m = <<>> THEN 0
    ELSE LET n == IF a.e >= 0 THEN BToNat(BShl(a.m, a.e)) ELSE BToNat(BShr(a.m, -a.e))
         IN  IF a.neg THEN -n ELSE n

\* a < b for non-negative a, b
FLess(a, b) ==
    IF b.m = <<>> THEN FALSE
    ELSE IF a.m = <<>> THEN TRUE
    ELSE a.e < b.e \/ (a.e = b.e /\ BCmp(a.m, b.m) < 0)

\* ---------------------------------------------------------------------
\* Line geometry
\* ---------------------------------------------------------------------

\* get_line_length is sqrt((x2-x1)^2 + (y2-y1)^2); it is used only as a
\* sort/max key, and sqrt is strictly increasing on integers of this size,
\* so the key is compared through its square.
get_line_length(line) ==
    (line[3] - line[1]) * (line[3] - line[1]) + (line[4] - line[2]) * (line[4] - line[2])

\* get_line_angle is degrees(arctan2(dy, dx)) % 180.  The angle in [0, 180)
\* is represented by the direction vector of that angle in the upper half
\* plane; arctan2(0, 0) = 0 gives the direction <<1, 0>>.
get_line_angle(line) ==
    LET dx == line[3] - line[1]
        dy == line[4] - line[2]
    IN  IF dx = 0 /\ dy = 0 THEN <<1, 0>>
        ELSE IF dy < 0 \/ (dy = 0 /\ dx < 0) THEN <<-dx, -dy>>
        ELSE <<dx, dy>>

BSquare(n) == BMul(BFromNat(n), BFromNat(n))

\* c / d < tan(15 degrees) = 2 - sqrt(3), for c >= 0 and d > 0:
\* sqrt(3) * d < 2 * d - c
TanBelowThresh(c, d) ==
    2 * d > c /\ BCmp(BMulSmall(BSquare(d), 3), BSquare(2 * d - c)) < 0

\* abs(angle - other_angle) < angle_thresh, both angles in [0, 180)
AbsDiffBelowThresh(u, v) ==
    LET dot   == u[1] * v[1] + u[2] * v[2]
        cross == Abs(u[1] * v[2] - u[2] * v[1])
    IN  dot > 0 /\ TanBelowThresh(cross, dot)

\* 180 - abs(angle - other_angle) < angle_thresh
WrapDiffBelowThresh(u, v) ==
    LET dot   == u[1] * v[1] + u[2] * v[2]
        cross == Abs(u[1] * v[2] - u[2] * v[1])
    IN  dot < 0 /\ TanBelowThresh(cross, -dot)

\* faulty variant: abs(angle - other_angle) < angle_thresh, no wrap at 180
angle_diff_below_thresh_no_wrap(angle, other_angle) ==
    AbsDiffBelowThresh(angle, other_angle)

\* min(abs(angle - other_angle), 180 - abs(angle - other_angle)) < angle_thresh
\* for the default angle_thresh of 15 degrees
angle_diff_below_thresh(angle, other_angle) ==
    AbsDiffBelowThresh(angle, other_angle) \/ WrapDiffBelowThresh(angle, other_angle)

\* sorted(lines, key=get_line_length, reverse=True): stable, longest first
RECURSIVE InsertByLength(_, _)
InsertByLength(s, x) ==
    IF s = <<>> THEN <<x>>
    ELSE IF get_line_length(s[1]) >= get_line_length(x)
         THEN <<s[1]>> \o InsertByLength(Tail(s), x)
         ELSE <<x>> \o s

RECURSIVE sorted_by_length(_)
sorted_by_length(s) ==
    IF s = <<>> THEN <<>>
    ELSE InsertByLength(sorted_by_length(SubSeq(s, 1, Len(s) - 1)), s[Len(s)])

\* faulty variant: the last element of greatest length
RECURSIVE max_by_length_last(_)
max_by_length_last(group) ==
    IF Len(group) = 1 THEN group[1]
    ELSE LET m == max_by_length_last(SubSeq(group, 1, Len(group) - 1))
         IN  IF get_line_length(group[Len(group)]) >= get_line_length(m)
             THEN group[Len(group)] ELSE m

\* max(group, key=get_line_length): the first element of greatest length
RECURSIVE max_by_length(_)
max_by_length(group) ==
    IF Len(group) = 1 THEN group[1]
    ELSE LET m == max_by_length(SubSeq(group, 1, Len(group) - 1))
         IN  IF get_line_length(group[Len(group)]) > get_line_length(m)
             THEN group[Len(group)] ELSE m

Take(s, k) == SubSeq(s, 1, Min2(k, Len(s)))

\* ---------------------------------------------------------------------
\* merge_similar_lines
\* ---------------------------------------------------------------------

\* faulty variant: each line is compared with the line added last to the
\* group instead of with the line that opened it
RECURSIVE MergeInner_chained(_, _, _, _)
MergeInner_chained(sl, i, j, st) ==
    IF j > Len(sl) THEN st
    ELSE IF st.used[j] THEN MergeInner_chained(sl, i, j + 1, st)
    ELSE IF angle_diff_below_thresh(get_line_angle(sl[st.group[Len(st.group)]]),
                                    get_line_angle(sl[j]))
         THEN MergeInner_chained(sl, i, j + 1,
                                 [used  |-> [st.used EXCEPT ![j] = TRUE],
                                  group |-> Append(st.group, j)])
         ELSE MergeInner_chained(sl, i, j + 1, st)

\* inner loop over j = i+1 .. : st = [used, group], group holds indices
\* into sorted_lines
RECURSIVE MergeInner(_, _, _, _)
MergeInner(sl, i, j, st) ==
    IF j > Len(sl) THEN st
    ELSE IF st.used[j] THEN MergeInner(sl, i, j + 1, st)
    ELSE IF angle_diff_below_thresh(get_line_angle(sl[i]), get_line_angle(sl[j]))
         THEN MergeInner(sl, i, j + 1,
                         [used  |-> [st.used EXCEPT ![j] = TRUE],
                          group |-> Append(st.group, j)])
         ELSE MergeInner(sl, i, j + 1, st)

\* faulty variant: a line already placed in a group still opens its own
RECURSIVE MergeOuter_no_skip(_, _, _, _)
MergeOuter_no_skip(sl, i, used, gs) ==
    IF i > Len(sl) THEN gs
    ELSE LET st == MergeInner(sl, i, i + 1,
                              [used |-> [used EXCEPT ![i] = TRUE], group |-> <<i>>])
         IN  MergeOuter_no_skip(sl, i + 1, st.used, Append(gs, st.group))

\* outer loop over i: returns the groups in opening order
RECURSIVE MergeOuter(_, _, _, _)
MergeOuter(sl, i, used, gs) ==
    IF i > Len(sl) THEN gs
    ELSE IF used[i] THEN MergeOuter(sl, i + 1, used, gs)
    ELSE LET st == MergeInner(sl, i, i + 1,
                              [used |-> [used EXCEPT ![i] = TRUE], group |-> <<i>>])
         IN  MergeOuter(sl, i + 1, st.used, Append(gs, st.group))

\* the clusters formed for the argument, as index sequences into
\* sorted(lines, key=get_line_length, reverse=True)
merge_groups(ls) ==
    LET sl == sorted_by_length(ls)
    IN  MergeOuter(sl, 1, [k \in 1..Len(sl) |-> FALSE], <<>>)

GroupLines(sl, g) == [k \in 1..Len(g) |-> sl[g[k]]]

representatives(sl, gs) == [k \in 1..Len(gs) |-> max_by_length(GroupLines(sl, gs[k]))]

merge_similar_lines(ls) == representatives(sorted_by_length(ls), merge_groups(ls))

\* ---------------------------------------------------------------------
\* find_line_intersection
\* ---------------------------------------------------------------------
None == <<>>

find_line_intersection(line1, line2) ==
    LET x1 == line1[1]  y1 == line1[2]  x2 == line1[3]  y2 == line1[4]
        x3 == line2[1]  y3 == line2[2]  x4 == line2[3]  y4 == line2[4]
        denom == (x1 - x2) * (y3 - y4) - (y1 - y2) * (x3 - x4)
        t == FDivInt((x1 - x3) * (y3 - y4) - (y1 - y3) * (x3 - x4), denom)
    IN  IF denom = 0 THEN None
        ELSE <<FTrunc(FAdd(FFromInt(x1), FMul(t, FFromInt(x2 - x1)))),
               FTrunc(FAdd(FFromInt(y1), FMul(t, FFromInt(y2 - y1))))>>

\* ---------------------------------------------------------------------
\* find_triangle_vertices, step by step
\* ---------------------------------------------------------------------
MergeTopK_ten == 5 + 5  \* faulty variant: sorted_lines[:10]
MergeTopK == 50        \* sorted_lines[:50]
MinMergedLines == 3    \* len(merged_lines) < 3
CentroidTopK == 6      \* merged_lines[:6]
PairTopK == 10         \* merged_lines[:10]
MaxVertices_four == 3 + 1  \* faulty variant: unique[:4]
MaxVertices == 3       \* unique[:3]

Height(shape) == shape[1]
Width(shape) == shape[2]

\* int(min(height, width) * 0.05)
border_margin(shape) ==
    FTrunc(FMul(FFromInt(Min2(Height(shape), Width(shape))), FDivInt(5, 100)))

\* int(min(height, width) * 0.03)
tolerance(shape) ==
    FTrunc(FMul(FFromInt(Min2(Height(shape), Width(shape))), FDivInt(3, 100)))

\* faulty variant: the y coordinate is not tested
EndpointNearBorder_x_only(x, y, shape, margin) ==
    \/ x < margin
    \/ x > Width(shape) - margin

EndpointNearBorder(x, y, shape, margin) ==
    \/ x < margin
    \/ x > Width(shape) - margin
    \/ y < margin
    \/ y > Height(shape) - margin

near_border(line, shape, margin) ==
    /\ EndpointNearBorder(line[1], line[2], shape, margin)
    /\ EndpointNearBorder(line[3], line[4], shape, margin)

\* faulty variant: border lines are removed from the list while it is being
\* iterated, so the element after each removed one is never examined
RECURSIVE SkipAfterRemoval(_, _, _)
SkipAfterRemoval(ls, shape, bm) ==
    IF ls = <<>> THEN <<>>
    ELSE IF near_border(ls[1], shape, bm)
         THEN IF Len(ls) = 1 THEN <<>>
              ELSE <<ls[2]>> \o SkipAfterRemoval(SubSeq(ls, 3, Len(ls)), shape, bm)
         ELSE <<ls[1]>> \o SkipAfterRemoval(Tail(ls), shape, bm)

filter_border_lines_skipping(ls, shape) == SkipAfterRemoval(ls, shape, border_margin(shape))

\* Step 1: filter out border lines
filter_border_lines(ls, shape) ==
    LET bm == border_margin(shape)
        Keep(line) == ~near_border(line, shape, bm)
    IN  SelectSeq(ls, Keep)

\* Step 2: sort by length and merge the longest MergeTopK
lines_to_merge(fl) == Take(sorted_by_length(fl), MergeTopK)

\* faulty variant: two lines are taken to be enough
not_enough_lines_below_two(ml) == Len(ml) < 2

not_enough_lines(ml) == Len(ml) < MinMergedLines

\* Step 3: centroid of the endpoints of the first CentroidTopK merged lines
RECURSIVE SumX(_)
SumX(ml) == IF ml = <<>> THEN 0 ELSE ml[1][1] + ml[1][3] + SumX(Tail(ml))

RECURSIVE SumY(_)
SumY(ml) == IF ml = <<>> THEN 0 ELSE ml[1][2] + ml[1][4] + SumY(Tail(ml))

line_centroid(ml) ==
    LET top == Take(ml, CentroidTopK)
    IN  <<FDivInt(SumX(top), 2 * Len(top)), FDivInt(SumY(top), 2 * Len(top))>>

\* np.sqrt((x - centroid_x)**2 + (y - centroid_y)**2)
dist_to_center(p, c) ==
    LET dx == FSub(FFromInt(p[1]), c[1])
        dy == FSub(FFromInt(p[2]), c[2])
    IN  FSqrt(FAdd(FMul(dx, dx), FMul(dy, dy)))

\* combinations(s, 2): index pairs <<i, j>>, i < j, in lexicographic order
RECURSIVE Combinations2(_, _, _)
Combinations2(n, i, j) ==
    IF i >= n THEN <<>>
    ELSE IF j > n THEN Combinations2(n, i + 1, i + 2)
    ELSE <<<<i, j>>>> \o Combinations2(n, i, j + 1)

inside_margin(p, shape, margin) ==
    /\ margin <= p[1] /\ p[1] <= Width(shape) - margin
    /\ margin <= p[2] /\ p[2] <= Height(shape) - margin

\* Step 4: intersections inside the image, with their distance to the centroid
RECURSIVE CollectVertices(_, _, _, _, _)
CollectVertices(top, prs, c, shape, margin) ==
    IF prs = <<>> THEN <<>>
    ELSE LET p == find_line_intersection(top[prs[1][1]], top[prs[1][2]])
             rest == CollectVertices(top, Tail(prs), c, shape, margin)
         IN  IF p = None THEN rest
             ELSE IF inside_margin(p, shape, margin)
                  THEN <<[v |-> p, dist |-> dist_to_center(p, c)]>> \o rest
                  ELSE rest

find_intersections(ml, c, shape) ==
    LET top == Take(ml, PairTopK)
        margin == border_margin(shape) * 2
    IN  CollectVertices(top, Combinations2(Len(top), 1, 2), c, shape, margin)

\* faulty variant: farthest first
RECURSIVE InsertByDist_farthest_first(_, _)
InsertByDist_farthest_first(s, x) ==
    IF s = <<>> THEN <<x>>
    ELSE IF FLess(s[1].dist, x.dist) THEN <<x>> \o s
    ELSE <<s[1]>> \o InsertByDist_farthest_first(Tail(s), x)

\* Step 5: vertices.sort(key=lambda v: v[1]): stable, closest first
RECURSIVE InsertByDist(_, _)
InsertByDist(s, x) ==
    IF s = <<>> THEN <<x>>
    ELSE IF FLess(x.dist, s[1].dist) THEN <<x>> \o s
    ELSE <<s[1]>> \o InsertByDist(Tail(s), x)

RECURSIVE sort_by_dist(_)
sort_by_dist(s) ==
    IF s = <<>> THEN <<>>
    ELSE InsertByDist(sort_by_dist(SubSeq(s, 1, Len(s) - 1)), s[Len(s)])

\* faulty variant: only the vertex accepted last is compared
is_dup_last_only(v, uq, tol) ==
    /\ uq # <<>>
    /\ Abs(v[1] - uq[Len(uq)][1]) < tol /\ Abs(v[2] - uq[Len(uq)][2]) < tol

is_dup(v, uq, tol) ==
    \E k \in 1..Len(uq) : Abs(v[1] - uq[k][1]) < tol /\ Abs(v[2] - uq[k][2]) < tol

RECURSIVE remove_duplicates(_, _, _)
remove_duplicates(vs, uq, tol) ==
    IF vs = <<>> THEN uq
    ELSE IF is_dup(vs[1].v, uq, tol) THEN remove_duplicates(Tail(vs), uq, tol)
    ELSE remove_duplicates(Tail(vs), Append(uq, vs[1].v), tol)

\* the whole function
find_triangle_vertices(ls, shape) ==
    LET ml == merge_similar_lines(lines_to_merge(filter_border_lines(ls, shape)))
    IN  IF not_enough_lines(ml) THEN <<>>
        ELSE Take(remove_duplicates(
                      sort_by_dist(find_intersections(ml, line_centroid(ml), shape)),
                      <<>>, tolerance(shape)),
                  MaxVertices)

\* ---------------------------------------------------------------------
\* STATE MACHINE
\* ---------------------------------------------------------------------

\* Inputs.  Pool: fragments of the edges of triangles inside the frame, two
\* of equal length, near-parallel ones, and one running border to border.
Pool ==
    { <<80, 110, 50, 10>>, <<60, 60, 70, 70>>, <<90, 20, 40, 80>>,
      <<30, 25, 70, 95>>, <<60, 20, 70, 100>>, <<2, 30, 118, 90>> }

Shapes == { <<120, 120>>, <<200, 240>> }

MaxLines == 4

Injective(s) == \A i, j \in DOMAIN s : i # j => s[i] # s[j]

ListsOver(S, n) == UNION { [1..k -> S] : k \in 0..n }

InputLists == { s \in ListsOver(Pool, MaxLines) : Injective(s) }

\* the right triangle of the end-to-end scenario, in a 120 x 120 frame
ScenarioLines == << <<0, 0, 100, 0>>, <<100, 0, 0, 100>>, <<0, 100, 0, 0>> >>
ScenarioShape == <<120, 120>>

\* redundant detections: every segment replaced by Copies near-identical
\* copies, copy c displaced by JitterOffsets[jitter][c]
MaxBaseLines == 3

JitterOffsets ==
    [ none  |-> << <<0, 0, 0, 0>>, <<0, 0, 0, 0>>, <<0, 0, 0, 0>>, <<0, 0, 0, 0>>, <<0, 0, 0, 0>> >>,
      pixel |-> << <<0, 0, 0, 0>>, <<1, 1, 0, 0>>, <<0, 0, 1, 1>>, <<-1, 0, 0, 1>>, <<0, -1, 1, 0>> >> ]

JitterPatterns == DOMAIN JitterOffsets
NoJitter == "none"
Copies == Len(JitterOffsets[NoJitter])

Displace(line, off) == [k \in 1..4 |-> line[k] + off[k]]

Duplicate(ls, j) ==
    [k \in 1..(Copies * Len(ls)) |->
        Displace(ls[((k - 1) \div Copies) + 1], JitterOffsets[j][((k - 1) % Copies) + 1])]

BaseLists == { s \in ListsOver(Pool, MaxBaseLines) : Injective(s) }

\* arguments for merge_similar_lines alone: the pool, a second segment of
\* the length of one of them at a similar angle, and two orientations that
\* are close only across the 0/180 wrap
MergePool ==
    Pool \cup { <<70, 20, 60, 100>>, <<20, 50, 100, 60>>, <<20, 60, 100, 50>> }

MaxMergeLines == 3

MergeLists == ListsOver(MergePool, MaxMergeLines)

\* arguments for find_line_intersection alone
IsectSegments ==
    { <<0, 50, 100, 50>>, <<50, 0, 50, 100>>, <<0, 0, 10, 0>>, <<0, 5, 10, 5>>,
      <<0, 0, 0, 49>>, <<14, 49, 21, 14>>, <<0, 50, 49, 50>>, <<1, 0, 1, 100>>,
      <<80, 110, 50, 10>>, <<60, 60, 70, 70>>, <<90, 20, 40, 80>>, <<10, 0, 0, 5>> }

Idle ==
    /\ filtered_lines = <<>> /\ sorted_lines = <<>> /\ groups = <<>>
    /\ merged_lines = <<>> /\ centroid = <<>> /\ vertices = <<>> /\ candidates = <<>>
    /\ unique = <<>> /\ result = <<>> /\ pair = <<>> /\ isect = None

\* a call of find_triangle_vertices
Init ==
    /\ \/ lines \in InputLists /\ img_shape \in Shapes
       \/ lines = ScenarioLines /\ img_shape = ScenarioShape
    /\ base = lines /\ jitter = NoJitter
    /\ pc = "start"
    /\ Idle

\* a call of find_triangle_vertices on redundant detections of base
InitDup ==
    /\ base \in BaseLists /\ img_shape \in Shapes /\ jitter \in JitterPatterns
    /\ lines = Duplicate(base, jitter)
    /\ pc = "start"
    /\ Idle

\* a call of merge_similar_lines
InitMerge ==
    /\ lines \in MergeLists /\ img_shape = ScenarioShape
    /\ base = lines /\ jitter = NoJitter
    /\ pc = "merge_call"
    /\ Idle

\* a call of find_line_intersection
InitIsect ==
    /\ pair \in IsectSegments \X IsectSegments
    /\ lines = <<>> /\ img_shape = ScenarioShape /\ base = <<>> /\ jitter = NoJitter
    /\ pc = "isect_call"
    /\ filtered_lines = <<>> /\ sorted_lines = <<>> /\ groups = <<>>
    /\ merged_lines = <<>> /\ centroid = <<>> /\ vertices = <<>> /\ candidates = <<>>
    /\ unique = <<>> /\ result = <<>> /\ isect = None

Step1_FilterBorder ==
    /\ pc = "start"
    /\ filtered_lines' = filter_border_lines(lines, img_shape)
    /\ pc' = "filtered"
    /\ UNCHANGED <<lines, img_shape, base, jitter, sorted_lines, groups, merged_lines,
                   centroid, vertices, candidates, unique, result, pair, isect>>

Step2_SortMerge ==
    /\ pc = "filtered"
    /\ sorted_lines' = sorted_by_length(lines_to_merge(filtered_lines))
    /\ groups' = merge_groups(lines_to_merge(filtered_lines))
    /\ merged_lines' = representatives(sorted_lines', groups')
    /\ pc' = "merged"
    /\ UNCHANGED <<lines, img_shape, base, jitter, filtered_lines,
                   centroid, vertices, candidates, unique, result, pair, isect>>

ReturnEmpty ==
    /\ pc = "merged"
    /\ not_enough_lines(merged_lines)
    /\ result' = <<>>
    /\ pc' = "done"
    /\ UNCHANGED <<lines, img_shape, base, jitter, filtered_lines, sorted_lines, groups,
                   merged_lines, centroid, vertices, candidates, unique, pair, isect>>

Step3_Centroid ==
    /\ pc = "merged"
    /\ ~not_enough_lines(merged_lines)
    /\ centroid' = line_centroid(merged_lines)
    /\ pc' = "centroid"
    /\ UNCHANGED <<lines, img_shape, base, jitter, filtered_lines, sorted_lines, groups,
                   merged_lines, vertices, candidates, unique, result, pair, isect>>

Step4_Intersections ==
    /\ pc = "centroid"
    /\ vertices' = find_intersections(merged_lines, centroid, img_shape)
    /\ candidates' = vertices'
    /\ pc' = "intersected"
    /\ UNCHANGED <<lines, img_shape, base, jitter, filtered_lines, sorted_lines, groups,
                   merged_lines, centroid, unique, result, pair, isect>>

Step5_SortDedup ==
    /\ pc = "intersected"
    /\ vertices' = sort_by_dist(vertices)
    /\ unique' = remove_duplicates(vertices', <<>>, tolerance(img_shape))
    /\ result' = Take(unique', MaxVertices)
    /\ pc' = "done"
    /\ UNCHANGED <<lines, img_shape, base, jitter, filtered_lines, sorted_lines, groups,
                   merged_lines, centroid, candidates, pair, isect>>

MergeCall ==
    /\ pc = "merge_call"
    /\ sorted_lines' = sorted_by_length(lines)
    /\ groups' = merge_groups(lines)
    /\ merged_lines' = representatives(sorted_lines', groups')
    /\ pc' = "merge_done"
    /\ UNCHANGED <<lines, img_shape, base, jitter, filtered_lines,
                   centroid, vertices, candidates, unique, result, pair, isect>>

IntersectCall ==
    /\ pc = "isect_call"
    /\ isect' = find_line_intersection(pair[1], pair[2])
    /\ pc' = "isect_done"
    /\ UNCHANGED <<lines, img_shape, base, jitter, filtered_lines, sorted_lines, groups,
                   merged_lines, centroid, vertices, candidates, unique, result, pair>>

Next ==
    \/ Step1_FilterBorder
    \/ Step2_SortMerge
    \/ ReturnEmpty
    \/ Step3_Centroid
    \/ Step4_Intersections
    \/ Step5_SortDedup

NextMerge == MergeCall

NextIsect == IntersectCall

Spec == Init /\ [][Next]_vars

SpecDup == InitDup /\ [][Next]_vars

SpecMerge == InitMerge /\ [][NextMerge]_vars

SpecIsect == InitIsect /\ [][NextIsect]_vars

\* ---------------------------------------------------------------------
\* PROPERTIES
\* ---------------------------------------------------------------------
Done == pc = "done"

Scenario == lines = ScenarioLines /\ img_shape = ScenarioShape

\* floor(0.03 * min(height, width)) and floor(0.05 * min(height, width)),
\* in exact integer arithmetic
ExactTolerance(shape) == (3 * Min2(shape[1], shape[2])) \div 100
ExactBorderMargin(shape) == (5 * Min2(shape[1], shape[2])) \div 100

\* p and q differ by less than tol on both axes
WithinTol(p, q, tol) == Abs(p[1] - q[1]) < tol /\ Abs(p[2] - q[2]) < tol

ScenarioCorners == { <<0, 0>>, <<100, 0>>, <<0, 100>> }

\* C1 (as stated): the right triangle A=(0,0,100,0), B=(100,0,0,100),
\* C=(0,100,0,0) in a 120 x 120 frame yields exactly 3 vertices, one within
\* the dedup tolerance of each of (0,0), (100,0) and (0,100).
C1_ScenarioYieldsThreeCorners ==
    (Done /\ Scenario) =>
        /\ Len(result) = 3
        /\ \A c \in ScenarioCorners :
              \E k \in 1..Len(result) : WithinTol(result[k], c, ExactTolerance(img_shape))

\* C1 (amended): in that scenario the border margin is 6, every one of the
\* three segments has both endpoints within the margin of the frame, the
\* border filter drops all three, and the call returns the empty list.
C1_ScenarioYieldsNoVertex ==
    (Scenario /\ pc # "start") =>
        /\ ExactBorderMargin(img_shape) = 6
        /\ filtered_lines = <<>>
        /\ (Done => result = <<>>)

C1_Witness == Done /\ Scenario /\ Len(lines) = 3

\* C2: the list returned by find_triangle_vertices has at most 3 elements.
C2_AtMostThreeVertices == Done => Len(result) <= 3

C2_Witness == Done /\ Len(unique) > 3 /\ Len(result) = 3

\* C3: no two distinct returned vertices are within
\* tol = floor(0.03 * min(height, width)) of each other on both axes.
C3_NoTwoVerticesWithinTolerance ==
    Done =>
        \A i, j \in 1..Len(result) :
            i # j => ~WithinTol(result[i], result[j], ExactTolerance(img_shape))

C3_Witness ==
    /\ Done /\ Len(result) >= 2
    /\ \E i, j \in 1..Len(vertices) :
          i # j /\ WithinTol(vertices[i].v, vertices[j].v, ExactTolerance(img_shape))

\* C6: when fewer than 3 merged lines remain after border filtering and
\* clustering (in particular for no or one input segment) the call runs to
\* its return and the returned list is empty.
C6_FewerThanThreeLinesGiveEmpty ==
    /\ (pc = "merged" /\ Len(merged_lines) < 3) => ENABLED ReturnEmpty
    /\ (pc \in {"centroid", "intersected"}) => Len(merged_lines) >= 3
    /\ (Done /\ Len(merged_lines) < 3) => result = <<>>
    /\ (Done /\ Len(lines) <= 1) => Len(merged_lines) < 3

\* two merged lines that cross inside the frame, and still no vertex
C6_Witness ==
    /\ Done /\ Len(merged_lines) = 2 /\ result = <<>>
    /\ find_line_intersection(merged_lines[1], merged_lines[2]) # None
    /\ inside_margin(find_line_intersection(merged_lines[1], merged_lines[2]),
                     img_shape, 2 * ExactBorderMargin(img_shape))

\* C10: the border filter is idempotent: filtering the filtered list again,
\* for the same image shape, returns it unchanged.
C10_BorderFilterIdempotent ==
    pc # "start" => filter_border_lines(filtered_lines, img_shape) = filtered_lines

C10_Witness ==
    /\ pc = "filtered"
    /\ filtered_lines # <<>>
    /\ Len(filtered_lines) < Len(lines)

\* direction of a segment; a segment of length zero has angle 0
Direction(line) ==
    IF line[3] = line[1] /\ line[4] = line[2] THEN <<1, 0>>
    ELSE <<line[3] - line[1], line[4] - line[2]>>

\* the circular angular distance min(|a-b|, 180-|a-b|) of two segments is
\* below 15 degrees: cos^2 of the angle between the lines exceeds
\* cos^2(15 degrees) = (2 + sqrt(3)) / 4, that is
\* 4 * dot^2 - 2 * N > sqrt(3) * N for N = |u|^2 * |v|^2
CircularDistBelow15(l1, l2) ==
    LET u  == Direction(l1)
        v  == Direction(l2)
        d4 == BMulSmall(BSquare(Abs(u[1] * v[1] + u[2] * v[2])), 4)
        N  == BMul(BFromNat(u[1] * u[1] + u[2] * u[2]), BFromNat(v[1] * v[1] + v[2] * v[2]))
        N2 == BMulSmall(N, 2)
    IN  /\ BCmp(d4, N2) > 0
        /\ BCmp(BMul(BSub(d4, N2), BSub(d4, N2)), BMulSmall(BMul(N, N), 3)) > 0

MergeDone == pc = "merge_done"

\* C4 (as stated): any two segments that merge_similar_lines places in the
\* same cluster have circular angular distance below the threshold.
C4_ClusterMembersPairwiseClose ==
    MergeDone =>
        \A g \in 1..Len(groups) : \A a, b \in 1..Len(groups[g]) :
            CircularDistBelow15(sorted_lines[groups[g][a]], sorted_lines[groups[g][b]])

\* C4 (amended): every segment of a cluster has circular angular distance
\* below the threshold to the segment that opened the cluster (its first
\* member); two other members of one cluster may be further apart.
C4_ClusterMembersCloseToSeed ==
    MergeDone =>
        \A g \in 1..Len(groups) : \A a \in 1..Len(groups[g]) :
            CircularDistBelow15(sorted_lines[groups[g][1]], sorted_lines[groups[g][a]])

\* a cluster holding two segments that are not within the threshold of
\* each other
C4_Witness ==
    /\ MergeDone
    /\ \E g \in 1..Len(groups) : \E a, b \in 1..Len(groups[g]) :
          ~CircularDistBelow15(sorted_lines[groups[g][a]], sorted_lines[groups[g][b]])

Occurrences(s, x) == Cardinality({ k \in 1..Len(s) : s[k] = x })

SameBag(s, t) ==
    /\ Len(s) = Len(t)
    /\ \A k \in 1..Len(s) : Occurrences(s, s[k]) = Occurrences(t, s[k])

\* the places <<g, k>> at which position i of sorted_lines is held in a group
PlacesOf(i) ==
    { gk \in (1..Len(groups)) \X (1..Len(sorted_lines)) :
        gk[2] <= Len(groups[gk[1]]) /\ groups[gk[1]][gk[2]] = i }

\* C5: merge_similar_lines assigns every input segment to exactly one
\* cluster, each cluster yields exactly one output segment (one of its
\* members), so the output is no longer than the input, and an empty input
\* gives an empty output.
C5_EverySegmentInExactlyOneCluster ==
    MergeDone =>
        /\ SameBag(sorted_lines, lines)
        /\ \A i \in 1..Len(sorted_lines) : Cardinality(PlacesOf(i)) = 1
        /\ \A g \in 1..Len(groups) :
              /\ groups[g] # <<>>
              /\ \A k \in 1..Len(groups[g]) : groups[g][k] \in 1..Len(sorted_lines)
        /\ Len(merged_lines) = Len(groups)
        /\ \A g \in 1..Len(groups) :
              \E k \in 1..Len(groups[g]) : merged_lines[g] = sorted_lines[groups[g][k]]
        /\ Len(merged_lines) <= Len(lines)
        /\ (lines = <<>> => merged_lines = <<>>)

C5_Witness ==
    /\ MergeDone /\ Len(lines) = 3 /\ Len(groups) = 2
    /\ Len(merged_lines) < Len(lines)

\* truncation toward zero of a / b
TruncDiv(a, b) ==
    IF (a < 0) # (b < 0) THEN -(Abs(a) \div Abs(b)) ELSE Abs(a) \div Abs(b)

Denominator(l1, l2) ==
    (l1[1] - l1[3]) * (l2[2] - l2[4]) - (l1[2] - l1[4]) * (l2[1] - l2[3])

\* the intersection of the two infinite lines, each coordinate truncated
\* to an integer, in exact rational arithmetic
ExactIntersection(l1, l2) ==
    LET denom == Denominator(l1, l2)
        num   == (l1[1] - l2[1]) * (l2[2] - l2[4]) - (l1[2] - l2[2]) * (l2[1] - l2[3])
    IN  <<TruncDiv(l1[1] * denom + num * (l1[3] - l1[1]), denom),
          TruncDiv(l1[2] * denom + num * (l1[4] - l1[2]), denom)>>

\* C7: find_line_intersection returns no intersection when denom is zero,
\* and otherwise the intersection point of the two infinite lines with each
\* coordinate truncated to an integer, so that lines crossing at an integer
\* point return exactly that point.
C7_IntersectionIsExactTruncatedPoint ==
    pc = "isect_done" =>
        IF Denominator(pair[1], pair[2]) = 0 THEN isect = None
        ELSE isect = ExactIntersection(pair[1], pair[2])


\* the squared distance of point v to the centroid of the endpoints of the
\* first 6 merged lines, scaled by the squared number n of those endpoints:
\* (n * x - sum of xs)^2 + (n * y - sum of ys)^2, in exact integer arithmetic
ExactDistKey(v) ==
    LET top == SubSeq(merged_lines, 1, Min2(6, Len(merged_lines)))
        n   == 2 * Len(top)
        dx  == n * v[1] - SumX(top)
        dy  == n * v[2] - SumY(top)
    IN  dx * dx + dy * dy

ExactCloser(a, b) == ExactDistKey(a.v) < ExactDistKey(b.v)

\* closer by the distance as computed in double precision
ComputedCloser(a, b) == FLess(a.dist, b.dist)

\* the candidates c in ranked order: closest first, candidates that are
\* equally close in their order of enumeration
Ranking(c, Closer(_, _)) ==
    LET pos(i) == 1 + Cardinality({ j \in 1..Len(c) :
                         Closer(c[j], c[i]) \/ (j < i /\ ~Closer(c[i], c[j])) })
    IN  [p \in 1..Len(c) |-> c[CHOOSE i \in 1..Len(c) : pos(i) = p].v]

\* the points of r that are not within tol of a surviving earlier point
RECURSIVE Survivors(_, _)
Survivors(r, tol) ==
    IF r = <<>> THEN <<>>
    ELSE LET before == Survivors(SubSeq(r, 1, Len(r) - 1), tol)
             last   == r[Len(r)]
         IN  IF \E k \in 1..Len(before) : WithinTol(before[k], last, tol)
             THEN before ELSE Append(before, last)

FirstThree(s) == SubSeq(s, 1, Min2(3, Len(s)))

\* C8 (as stated): the returned vertices are the first (up to 3) candidates,
\* after deduplication, of the ranking by non-decreasing Euclidean distance
\* to the centroid in which candidates at equal distance keep the order in
\* which their line pairs are enumerated.
C8_RankedByDistanceTiesInEnumerationOrder ==
    Done => result = FirstThree(Survivors(Ranking(candidates, ExactCloser),
                                          ExactTolerance(img_shape)))

\* C8 (amended): the returned vertices are in order of non-decreasing
\* Euclidean distance to the centroid, and they are the first (up to 3)
\* candidates, after deduplication, of the ranking by the distance as
\* computed in double precision, in which candidates whose computed
\* distances are equal keep the order of enumeration of their line pairs.
C8_RankedByComputedDistance ==
    Done =>
        /\ result = FirstThree(Survivors(Ranking(candidates, ComputedCloser),
                                         ExactTolerance(img_shape)))
        /\ \A i, j \in 1..Len(result) :
              i < j => ExactDistKey(result[i]) <= ExactDistKey(result[j])

\* two returned vertices at exactly the same distance to the centroid, the
\* one enumerated later returned first
C8_Witness ==
    /\ Done
    /\ \E i, j \in 1..Len(candidates) : \E a, b \in 1..Len(result) :
          /\ i < j /\ a < b
          /\ result[a] = candidates[j].v /\ result[b] = candidates[i].v
          /\ candidates[i].v # candidates[j].v
          /\ ExactDistKey(candidates[i].v) = ExactDistKey(candidates[j].v)
          /\ FLess(candidates[j].dist, candidates[i].dist)

\* the same number of vertices, each within tol of a vertex of the other
SameVertices(r1, r2, tol) ==
    /\ Len(r1) = Len(r2)
    /\ \A a \in 1..Len(r1) : \E b \in 1..Len(r2) :
          Abs(r1[a][1] - r2[b][1]) <= tol /\ Abs(r1[a][2] - r2[b][2]) <= tol
    /\ \A b \in 1..Len(r2) : \E a \in 1..Len(r1) :
          Abs(r1[a][1] - r2[b][1]) <= tol /\ Abs(r1[a][2] - r2[b][2]) <= tol

\* C9 (as stated): on an input in which every segment is replaced by 5
\* near-identical copies (jitter of at most a pixel, or none)
\* find_triangle_vertices returns the same number of vertices, at the same
\* positions within the dedup tolerance, as on the single-copy input.
C9_DuplicationKeepsVertices ==
    Done => SameVertices(result, find_triangle_vertices(base, img_shape),
                         ExactTolerance(img_shape))

\* C9 (amended): on an input of at most 50 segments in which every segment
\* is replaced by 5 identical copies find_triangle_vertices returns exactly
\* the list it returns on the single-copy input.
C9_IdenticalCopiesKeepVertices ==
    (Done /\ jitter = NoJitter /\ Len(lines) <= 50) =>
        result = find_triangle_vertices(base, img_shape)

C9_Witness ==
    /\ Done /\ jitter = NoJitter
    /\ Len(base) = 3 /\ Len(lines) = 5 * Len(base)
    /\ Len(result) = 3

SquaredLength(line) ==
    (line[3] - line[1]) * (line[3] - line[1]) + (line[4] - line[2]) * (line[4] - line[2])

\* the segments of cluster g
Members(g) == { sorted_lines[groups[g][k]] : k \in 1..Len(groups[g]) }

\* the first position of segment x in sequence s
FirstIndex(s, x) == CHOOSE k \in 1..Len(s) : s[k] = x /\ \A h \in 1..(k - 1) : s[h] # x

\* C11: every cluster formed by merge_similar_lines is non-empty, its
\* representative in the output is a longest member of the cluster, and
\* among the members of greatest length it is the one that appears first
\* in the input sequence.
C11_RepresentativeIsFirstLongestMember ==
    MergeDone =>
        /\ Len(merged_lines) = Len(groups)
        /\ \A g \in 1..Len(groups) :
              /\ groups[g] # <<>>
              /\ merged_lines[g] \in Members(g)
              /\ \A m \in Members(g) :
                    /\ SquaredLength(m) <= SquaredLength(merged_lines[g])
                    /\ SquaredLength(m) = SquaredLength(merged_lines[g])
                          => FirstIndex(lines, merged_lines[g]) <= FirstIndex(lines, m)

\* a cluster in which two different segments tie for the greatest length
C11_Witness ==
    /\ MergeDone
    /\ \E g \in 1..Len(groups) : \E m \in Members(g) :
          /\ m # merged_lines[g]
          /\ SquaredLength(m) = SquaredLength(merged_lines[g])
          /\ FirstIndex(lines, merged_lines[g]) < FirstIndex(lines, m)

\* C12: the segments returned by merge_similar_lines are in non-increasing
\* order of length, each is the seed (the first member) of its cluster, and
\* any two of them at different positions have circular angular distance of
\* at least the threshold.
C12_RepresentativesOrderedSeedsAndApart ==
    MergeDone =>
        /\ Len(merged_lines) = Len(groups)
        /\ \A g \in 1..Len(merged_lines) :
              merged_lines[g] = sorted_lines[groups[g][1]]
        /\ \A g, h \in 1..Len(merged_lines) :
              g < h =>
                 /\ SquaredLength(merged_lines[g]) >= SquaredLength(merged_lines[h])
                 /\ ~CircularDistBelow15(merged_lines[g], merged_lines[h])

\* two returned segments, the longer one strictly longer, and a member of
\* the first cluster that is within the threshold of the second returned
\* segment
C12_Witness ==
    /\ MergeDone
    /\ Len(merged_lines) = 2
    /\ SquaredLength(merged_lines[1]) > SquaredLength(merged_lines[2])
    /\ \E m \in Members(1) : CircularDistBelow15(m, merged_lines[2])

====
